---- MODULE Spec2Model ----
(***************************************************************************)
(* Angular units of src/angle.rs: Radians<T> and Degrees<T> over a binary  *)
(* floating-point scalar T, with the Angle trait's constants, conversions, *)
(* wrap and opposite, the arithmetic operator impls, exact comparison and  *)
(* fuzzy comparison.                                                       *)
(*                                                                         *)
(* The scalar T is a binary floating-point format with Prec significant    *)
(* bits, round-to-nearest ties-to-even, and gradual underflow.  A scalar   *)
(* is held as the integer k with value k / 2^FracBits; k is a value of the *)
(* format iff |k| needs at most Prec significant bits.  The sign of zero   *)
(* is not represented (-0.0 and 0.0 compare equal in every operation of    *)
(* the source), and magnitudes stay far below the format's overflow        *)
(* threshold, so NaN and the infinities never arise.                       *)
(***************************************************************************)
EXTENDS Integers, FiniteSets, Sequences, TLC

VARIABLES unit, x, from, arg, rhs, last, cmp

vars == <<unit, x, from, arg, rhs, last, cmp>>

(***************************************************************************)
(* Bounds of the model.                                                    *)
(***************************************************************************)
\* significant bits of the scalar format T
Prec == 8
\* the inputs are the scalars m * 2^s / 2^FracBits, m < 2^Prec, s <= MaxShift
MaxShift == 14

\* weight of the least significant bit of the format is 2^-FracBits
FracBits == Prec + 5
One == 2 ^ FracBits
MaxVal == (2 ^ Prec) * (2 ^ MaxShift)

(***************************************************************************)
(* Binary floating-point arithmetic on the scalars.                        *)
(***************************************************************************)
Abs(n) == IF n < 0 THEN -n ELSE n

Sgn(n) == IF n < 0 THEN -1 ELSE IF n > 0 THEN 1 ELSE 0

Max(a, b) == IF a >= b THEN a ELSE b

RECURSIVE BitLen(_)
\* number of bits of the natural n
BitLen(n) == IF n = 0 THEN 0 ELSE 1 + BitLen(n \div 2)

RECURSIVE TrailZ(_)
\* number of trailing zero bits of the positive n
TrailZ(n) == IF n % 2 = 1 THEN 0 ELSE 1 + TrailZ(n \div 2)

\* n / d rounded to the nearest integer, ties to the even one (n >= 0, d > 0)
RHE(n, d) ==
    LET q == n \div d
        r == n % d
    IN  IF 2 * r < d THEN q
        ELSE IF 2 * r > d THEN q + 1
        ELSE IF q % 2 = 0 THEN q ELSE q + 1

\* the scalar nearest to (n / d) * 2^e units (n >= 0, d > 0; n >= d when e > 0)
RndQ(n, d, e) ==
    LET q == n \div d
    IN  IF e >= 0
        THEN LET len == BitLen(q) + e
                 j   == Max(0, len - Prec)
             IN  IF j >= e THEN RHE(n, d * (2 ^ (j - e))) * (2 ^ j)
                 ELSE RHE(n * (2 ^ (e - j)), d) * (2 ^ j)
        ELSE IF -e >= BitLen(q) + 2 THEN 0
        ELSE LET len == BitLen(q \div (2 ^ (-e)))
                 j   == Max(0, len - Prec)
             IN  RHE(n, d * (2 ^ (j - e))) * (2 ^ j)

\* k is a value of the format
Representable(k) == k = 0 \/ BitLen(Abs(k)) - TrailZ(Abs(k)) <= Prec

\* the exact integer k (in units) rounded to the format
Round(k) == Sgn(k) * RndQ(Abs(k), 1, 0)

\* odd part and binary exponent of a non-zero scalar
Mant(k) == Abs(k) \div (2 ^ TrailZ(Abs(k)))

\* a non-zero scalar's significand scaled to exactly Prec bits
NormMant(k) ==
    (Abs(k) * (2 ^ Max(0, Prec - BitLen(Abs(k))))) \div (2 ^ Max(0, BitLen(Abs(k)) - Prec))

NormExp(k) == BitLen(Abs(k)) - Prec

\* T + T
fadd(a, b) == Round(a + b)

\* T - T
fsub(a, b) == Round(a - b)

\* T * T
fmul(a, b) ==
    IF a = 0 \/ b = 0 THEN 0
    ELSE Sgn(a) * Sgn(b) *
         RndQ(Mant(a) * Mant(b), 1, TrailZ(Abs(a)) + TrailZ(Abs(b)) - FracBits)

\* T / T (b # 0)
fdiv(a, b) ==
    IF a = 0 THEN 0
    ELSE Sgn(a) * Sgn(b) *
         RndQ(NormMant(a) * (2 ^ (Prec + 2)), NormMant(b),
              NormExp(a) - NormExp(b) + FracBits - (Prec + 2))

\* T % T: the truncating remainder, sign of the dividend, always exact (b # 0)
frem(a, b) == Sgn(a) * (Abs(a) % Abs(b))

\* cast of a numeric literal with an integer value to T
cast(n) == Round(n * One)

(***************************************************************************)
(* The Float constants and the fuzzy tolerance of the scalar type.         *)
(***************************************************************************)
\* pi * 2^28 and (pi / 3) * 2^30, rounded to integers
PiNum == 843314857
Pi3Num == 1124419809
\* the tolerance of FuzzyEq on the scalars is 1 / FuzzyDen
FuzzyDen == 1000000

\* Float::pi(), Float::two_pi(), Float::frac_pi_2(), _3(), _4(): the values
\* of the format nearest to pi, 2 pi, pi / 2, pi / 3 and pi / 4
Float_pi == RndQ(PiNum, 1, FracBits - 28)

Float_two_pi == RndQ(PiNum, 1, FracBits - 27)

Float_frac_pi_2 == RndQ(PiNum, 1, FracBits - 29)

Float_frac_pi_3 == RndQ(Pi3Num, 1, FracBits - 30)

Float_frac_pi_4 == RndQ(PiNum, 1, FracBits - 30)

\* FuzzyEq on two scalars: the absolute difference is below the tolerance
scalar_fuzzy_eq(a, b) ==
    LET d == Abs(fsub(a, b))
    IN  d <= One \div FuzzyDen /\ d * FuzzyDen < One

(***************************************************************************)
(* Radians<T> and Degrees<T>: a scalar tagged by its unit.                 *)
(***************************************************************************)
Units == {"Rad", "Deg"}

full_turn(u) == IF u = "Rad" THEN Float_two_pi ELSE cast(360)

\* half_turn returning the full turn
half_turn_as_full(u) == IF u = "Rad" THEN Float_two_pi ELSE cast(360)

half_turn(u) == IF u = "Rad" THEN Float_pi ELSE cast(180)

quadrant(u) == IF u = "Rad" THEN Float_frac_pi_2 ELSE cast(90)

\* sextant returning the octant
sextant_as_octant(u) == IF u = "Rad" THEN Float_frac_pi_4 ELSE cast(45)

sextant(u) == IF u = "Rad" THEN Float_frac_pi_3 ELSE cast(60)

octant(u) == IF u = "Rad" THEN Float_frac_pi_4 ELSE cast(45)

zero(u) == IF u = "Rad" THEN 0 ELSE cast(0)

add(a, b) == fadd(a, b)

\* sub with its operands exchanged
sub_reversed(a, b) == fsub(b, a)

sub(a, b) == fsub(a, b)

mul(a, s) == fmul(a, s)

div(a, s) == fdiv(a, s)

modulo(a, s) == frem(a, s)

neg(a) == -a

fuzzy_eq(a, b) == scalar_fuzzy_eq(a, b)

eq(a, b) == a = b

ne(a, b) == a # b

\* lt answering as le
lt_or_equal(a, b) == a <= b

lt(a, b) == a < b

le(a, b) == a <= b

ge(a, b) == a >= b

gt(a, b) == a > b

\* to_radians scaling by the constant of to_degrees
to_radians_inverted(u, a) ==
    IF u = "Rad" THEN a ELSE fmul(a, fdiv(cast(180), Float_pi))

to_radians(u, a) ==
    IF u = "Rad" THEN a ELSE fmul(a, fdiv(Float_pi, cast(180)))

to_degrees(u, a) ==
    IF u = "Deg" THEN a ELSE fmul(a, fdiv(cast(180), Float_pi))

\* the raw scalar that wrap takes the remainder by
wrap_modulus(u) == IF u = "Rad" THEN fmul(cast(2), Float_pi) ELSE cast(360)

\* wrap without the correction of a negative remainder
wrap_uncorrected(u, a) == modulo(a, wrap_modulus(u))

wrap(u, a) ==
    LET theta == modulo(a, wrap_modulus(u))
    IN  IF ge(theta, zero(u)) THEN theta ELSE add(theta, full_turn(u))

\* opposite without the final wrap
opposite_unwrapped(u, a) == add(a, half_turn(u))

opposite(u, a) == wrap(u, add(a, half_turn(u)))

(***************************************************************************)
(* The state: one angle value x of unit `unit`, the operation that made it *)
(* (last, "new" for a value constructed from a raw scalar), that           *)
(* operation's receiver (arg, of unit `from`) and right-hand operand       *)
(* (rhs), and the answers of the last comparison (cmp).  An operation is   *)
(* called on a bound value; Bind binds the result of the last call as the  *)
(* receiver of the next one.                                               *)
(***************************************************************************)
\* every scalar of the format up to the magnitude MaxVal
Inputs ==
    {sg * m * (2 ^ s) : sg \in {-1, 1}, m \in 0..(2 ^ Prec - 1), s \in 0..MaxShift}

\* right-hand angles of add, sub and the comparisons
Operands ==
    {1, -3, cast(1), -cast(45), cast(180), -cast(360), cast(400), Float_pi}

\* right-hand scalars of mul, div and modulo
Scalars == {cast(2), -cast(3)}

ConstNames == {"full_turn", "half_turn", "quadrant", "sextant", "octant", "zero"}

const(u, c) ==
    CASE c = "full_turn" -> full_turn(u)
      [] c = "half_turn" -> half_turn(u)
      [] c = "quadrant" -> quadrant(u)
      [] c = "sextant" -> sextant(u)
      [] c = "octant" -> octant(u)
      [] c = "zero" -> zero(u)

InRange(a) == Abs(a) < MaxVal

Init ==
    /\ unit \in Units
    /\ x \in Inputs
    /\ from = unit
    /\ arg = x
    /\ rhs = 0
    /\ last = "new"
    /\ cmp = {}

\* the step that replaces the angle by r, of unit u, computed by operation op
Step(op, u, r, b) ==
    /\ last = "new"
    /\ InRange(r)
    /\ unit' = u
    /\ x' = r
    /\ from' = unit
    /\ arg' = x
    /\ rhs' = b
    /\ last' = op
    /\ cmp' = {}

Constant == \E c \in ConstNames : Step(c, unit, const(unit, c), 0)

Wrap == Step("wrap", unit, wrap(unit, x), 0)

Opposite == Step("opposite", unit, opposite(unit, x), 0)

ToRadians == Step("to_radians", "Rad", to_radians(unit, x), 0)

ToDegrees == Step("to_degrees", "Deg", to_degrees(unit, x), 0)

Add == \E b \in Operands : Step("add", unit, add(x, b), b)

Sub == \E b \in Operands : Step("sub", unit, sub(x, b), b)

Mul == \E s \in Scalars : Step("mul", unit, mul(x, s), s)

Div == \E s \in Scalars : Step("div", unit, div(x, s), s)

Modulo == \E s \in Scalars : Step("modulo", unit, modulo(x, s), s)

Neg == Step("neg", unit, neg(x), 0)

Compare ==
    \E b \in Operands :
        /\ last = "new"
        /\ cmp' = {n \in {"eq", "ne", "lt", "le", "ge", "gt"} :
                      CASE n = "eq" -> eq(x, b)
                        [] n = "ne" -> ne(x, b)
                        [] n = "lt" -> lt(x, b)
                        [] n = "le" -> le(x, b)
                        [] n = "ge" -> ge(x, b)
                        [] n = "gt" -> gt(x, b)}
        /\ rhs' = b
        /\ arg' = x
        /\ from' = unit
        /\ last' = "cmp"
        /\ UNCHANGED <<unit, x>>

Bind ==
    /\ last # "new"
    /\ from' = unit
    /\ arg' = x
    /\ rhs' = 0
    /\ last' = "new"
    /\ cmp' = {}
    /\ UNCHANGED <<unit, x>>

Next ==
    \/ Bind
    \/ Constant
    \/ Wrap
    \/ Opposite
    \/ ToRadians
    \/ ToDegrees
    \/ Add
    \/ Sub
    \/ Mul
    \/ Div
    \/ Modulo
    \/ Neg
    \/ Compare

Spec == Init /\ [][Next]_vars

TypeOK ==
    /\ unit \in Units
    /\ from \in Units
    /\ x \in Inputs
    /\ arg \in Inputs
    /\ last \in ConstNames \cup {"new", "wrap", "opposite", "to_radians", "to_degrees",
                                 "add", "sub", "mul", "div", "modulo", "neg", "cmp"}

(***************************************************************************)
(* Notions the properties are stated with.                                 *)
(***************************************************************************)
\* spacing of the format's values at the magnitude of k
Ulp(k) == 2 ^ Max(0, BitLen(Abs(k)) - Prec)

\* the float addition a + b is exact
AddExact(a, b) == Representable(a + b)

\* the addition wrap performs on a, when it performs one, is exact
WrapExact(u, a) ==
    LET theta == frem(a, wrap_modulus(u))
    IN  theta >= 0 \/ Representable(theta + full_turn(u))

\* a lies in the normalized range of its unit
InTurn(u, a) == 0 <= a /\ a < full_turn(u)

(***************************************************************************)
(* C1: after wrap the value satisfies zero() <= wrap(x) < full_turn(), in  *)
(* both units, for every finite x.                                         *)
(***************************************************************************)
C1_WrapRange ==
    last = "wrap" => (ge(x, zero(unit)) /\ lt(x, full_turn(unit)))

(***************************************************************************)
(* C2: wrap is idempotent under exact equality: wrap(wrap(x)) == wrap(x).  *)
(***************************************************************************)
C2_WrapIdempotent ==
    last = "wrap" => eq(wrap(unit, x), x)

(***************************************************************************)
(* C5 as stated: for every negative x, wrap(x) equals the mathematical     *)
(* (floored) x mod full_turn.                                              *)
(***************************************************************************)
C5_FlooredMod ==
    (last = "wrap" /\ arg < 0) => x = arg % full_turn(unit)

(***************************************************************************)
(* C5 amended: wrap returns the truncating remainder theta when it is not  *)
(* negative and the float sum theta + full_turn otherwise, so for every    *)
(* negative x the result is the floored x mod full_turn rounded to the     *)
(* nearest value of the format (full_turn itself when that is nearest);    *)
(* Degrees(-90).wrap() is Degrees(270) and Radians(-pi/2).wrap() is        *)
(* Radians(3 pi / 2).                                                      *)
(***************************************************************************)
C5_RoundedFlooredMod ==
    /\ (last = "wrap" /\ arg < 0) => x = Round(arg % full_turn(unit))
    /\ (last = "wrap" /\ unit = "Deg" /\ arg = -cast(90)) => fuzzy_eq(x, cast(270))
    /\ (last = "wrap" /\ unit = "Rad" /\ arg = -Float_frac_pi_2)
          => fuzzy_eq(x, fdiv(fmul(cast(3), Float_pi), cast(2)))

\* a negative angle was wrapped and the correction had to round
C5_Witness ==
    /\ last = "wrap"
    /\ arg < 0
    /\ ~Representable(arg % full_turn(unit))
    /\ x # arg

C8_Ordering ==
    last = "cmp" =>
        /\ ("lt" \in cmp) = (arg < rhs)
        /\ ("le" \in cmp) = (arg <= rhs)
        /\ ("ge" \in cmp) = (arg >= rhs)
        /\ ("gt" \in cmp) = (arg > rhs)
        /\ ("eq" \in cmp) = (arg = rhs)
        /\ ("ne" \in cmp) = ~("eq" \in cmp)
        /\ Cardinality(cmp \cap {"lt", "eq", "gt"}) = 1

\* two equal angles were compared
C8_Witness ==
    /\ last = "cmp"
    /\ arg = rhs
    /\ cmp = {"eq", "le", "ge"}

(***************************************************************************)
(* C3 as stated: x.wrap().opposite() fuzzy-equals x.opposite().wrap() for  *)
(* every finite x.                                                         *)
(***************************************************************************)
C3_WrapOppositeCommute ==
    last = "wrap" => fuzzy_eq(opposite(unit, x), wrap(unit, opposite(unit, arg)))

\* every float addition in x.wrap().opposite() and x.opposite().wrap() is exact
C3_NoRounding(u, a) ==
    /\ WrapExact(u, a)
    /\ AddExact(wrap(u, a), half_turn(u))
    /\ WrapExact(u, add(wrap(u, a), half_turn(u)))
    /\ AddExact(a, half_turn(u))
    /\ WrapExact(u, add(a, half_turn(u)))

(***************************************************************************)
(* C3 amended: x.wrap().opposite() equals x.opposite().wrap() exactly for  *)
(* every x already in [zero(), full_turn()), and for every other x whose   *)
(* additions in the two computations are all exact; when an addition       *)
(* rounds, the two results may differ by more than the fuzzy tolerance.    *)
(***************************************************************************)
C3_CommuteNormalizedOrExact ==
    (last = "wrap" /\ (InTurn(unit, arg) \/ C3_NoRounding(unit, arg)))
        => eq(opposite(unit, x), wrap(unit, opposite(unit, arg)))

\* a normalized angle whose half-turn addition rounds and leaves the range
C3_Witness ==
    /\ last = "wrap"
    /\ InTurn(unit, arg)
    /\ ~AddExact(arg, half_turn(unit))
    /\ arg + half_turn(unit) > full_turn(unit)
    /\ opposite(unit, x) < half_turn(unit)

(***************************************************************************)
(* C7 as stated: a.add(b).sub(b) fuzzy-equals a for all same-unit a, b.    *)
(***************************************************************************)
C7_AddSubFuzzy ==
    last = "add" => (unit = from /\ fuzzy_eq(sub(x, rhs), arg))

(***************************************************************************)
(* C7 amended: add and sub keep the unit and act on the scalars;           *)
(* a.add(b).sub(b) equals a exactly whenever the sum a + b is a value of   *)
(* the format, and otherwise differs from a by at most one unit in the     *)
(* last place of the rounded sum, which can exceed the fuzzy tolerance.    *)
(***************************************************************************)
C7_AddSubWithinUlp ==
    last = "add" =>
        /\ unit = from
        /\ x = Round(arg + rhs)
        /\ AddExact(arg, rhs) => eq(sub(x, rhs), arg)
        /\ Abs(sub(x, rhs) - arg) <= Ulp(x)

\* a sum that had to round, and a subtraction that does not give a back
C7_Witness ==
    /\ last = "add"
    /\ ~AddExact(arg, rhs)
    /\ sub(x, rhs) # arg

(***************************************************************************)
(* C9: the constant constructors are the stated fractions of a full turn:  *)
(* 360, 180, 90, 60, 45, 0 for Degrees and 2 pi, pi, pi/2, pi/3, pi/4, 0   *)
(* for Radians.                                                            *)
(***************************************************************************)
C9_TurnFractions ==
    /\ (unit = "Deg" /\ last = "full_turn") => x = 360 * One
    /\ (unit = "Deg" /\ last = "half_turn") => (x = 180 * One /\ mul(x, cast(2)) = full_turn(unit))
    /\ (unit = "Deg" /\ last = "quadrant") =>
           (x = 90 * One /\ mul(x, cast(4)) = full_turn(unit) /\ fuzzy_eq(x, cast(90)))
    /\ (unit = "Deg" /\ last = "sextant") => (x = 60 * One /\ mul(x, cast(6)) = full_turn(unit))
    /\ (unit = "Deg" /\ last = "octant") => (x = 45 * One /\ mul(x, cast(8)) = full_turn(unit))
    /\ last = "zero" => x = 0
    /\ (unit = "Rad" /\ last = "full_turn") => x = fmul(cast(2), Float_pi)
    /\ (unit = "Rad" /\ last = "half_turn") =>
           2 * Abs(x * (2 ^ (28 - FracBits)) - PiNum) <= Ulp(x) * (2 ^ (28 - FracBits))
    /\ (unit = "Rad" /\ last = "quadrant") => mul(x, cast(2)) = Float_pi
    /\ (unit = "Rad" /\ last = "sextant") => fuzzy_eq(x, fdiv(Float_pi, cast(3)))
    /\ (unit = "Rad" /\ last = "octant") => mul(x, cast(4)) = Float_pi

\* the sextant of the radians unit was constructed
C9_Witness ==
    /\ last = "sextant"
    /\ unit = "Rad"
    /\ x > cast(1)
    /\ x < Float_frac_pi_2

(***************************************************************************)
(* C10 as stated: x.opposite().opposite() fuzzy-equals x.wrap() and        *)
(* x.opposite() is never equal to x.wrap(), for every finite x.            *)
(***************************************************************************)
C10_OppositeInvolution ==
    last = "opposite" =>
        /\ fuzzy_eq(opposite(unit, x), wrap(unit, arg))
        /\ ne(x, wrap(unit, arg))

\* every float addition in x.opposite().opposite() and x.wrap() is exact
C10_NoRounding(u, a) ==
    /\ WrapExact(u, a)
    /\ AddExact(a, half_turn(u))
    /\ WrapExact(u, add(a, half_turn(u)))
    /\ AddExact(opposite(u, a), half_turn(u))
    /\ WrapExact(u, add(opposite(u, a), half_turn(u)))

(***************************************************************************)
(* C10 amended: for every x whose additions in x.opposite().opposite() and *)
(* x.wrap() are all exact, x.opposite().opposite() equals x.wrap() and     *)
(* x.opposite() differs from x.wrap(); when an addition rounds, either     *)
(* part can fail.                                                          *)
(***************************************************************************)
C10_InvolutionWhenExact ==
    (last = "opposite" /\ C10_NoRounding(unit, arg)) =>
        /\ eq(opposite(unit, x), wrap(unit, arg))
        /\ ne(x, wrap(unit, arg))

\* a negative angle outside the first turn, computed without rounding
C10_Witness ==
    /\ last = "opposite"
    /\ C10_NoRounding(unit, arg)
    /\ arg < -full_turn(unit)
    /\ x # arg
    /\ Abs(x - wrap(unit, arg)) = half_turn(unit)

(***************************************************************************)
(* C4 as stated: Degrees(x).to_radians().to_degrees() fuzzy-equals         *)
(* Degrees(x), and Radians(x).to_degrees().to_radians() fuzzy-equals       *)
(* Radians(x), for every finite x.                                         *)
(***************************************************************************)
C4_RoundTripFuzzy ==
    /\ (last = "to_radians" /\ from = "Deg") => fuzzy_eq(to_degrees(unit, x), arg)
    /\ (last = "to_degrees" /\ from = "Rad") => fuzzy_eq(to_radians(unit, x), arg)

\* the scalar is zero or in the format's normal range: it has full precision
Normal(k) == k = 0 \/ BitLen(Abs(k)) >= Prec

(***************************************************************************)
(* C4 amended: the two conversions are inverses up to rounding: when the   *)
(* value and the intermediate product are in the format's normal range,    *)
(* the round trip returns a value within 6 units in the last place of x    *)
(* (two rounded constants, each from a rounded pi and a rounded division,  *)
(* and two rounded products; exact for zero), so it fuzzy-equals x only at *)
(* magnitudes where that error is below the absolute tolerance.            *)
(***************************************************************************)
C4_RoundTripWithinUlps ==
    /\ (last = "to_radians" /\ from = "Deg" /\ Normal(arg) /\ Normal(x))
          => /\ Abs(to_degrees(unit, x) - arg) <= 6 * Ulp(arg)
             /\ arg = 0 => to_degrees(unit, x) = 0
    /\ (last = "to_degrees" /\ from = "Rad" /\ Normal(arg) /\ Normal(x))
          => /\ Abs(to_radians(unit, x) - arg) <= 6 * Ulp(arg)
             /\ arg = 0 => to_radians(unit, x) = 0

\* a degrees value converted to radians that does not convert back exactly
C4_Witness ==
    /\ last = "to_radians"
    /\ from = "Deg"
    /\ Normal(arg)
    /\ Normal(x)
    /\ arg > cast(1)
    /\ to_degrees(unit, x) # arg

====
